---- MODULE Spec2Model ----
(***************************************************************************)
(* Model of src/App.tsx: the App component of the to-do list.              *)
(*                                                                         *)
(* State is the component's four useState cells, the value held under the  *)
(* localStorage key 'tasks', the wall clock read by Date.now(), and the    *)
(* position of React's commit machinery: the passive effects of the last   *)
(* committed render that have not run yet (effects) and a setTasks update  *)
(* queued by an effect and not rendered yet (queued).                      *)
(*                                                                         *)
(* A user event handler runs to completion together with the synchronous   *)
(* re-render its setState calls cause; the passive effects of that render  *)
(* are separate callbacks, and React flushes them before it dispatches the *)
(* next event, so no handler is enabled while effects are pending.         *)
(***************************************************************************)
EXTENDS Integers, Sequences, FiniteSets

VARIABLES
    tasks,             \* useState<Task[]>([])        App.tsx:17
    newTask,           \* useState('')                App.tsx:18
    filter,            \* useState<FilterType>('all') App.tsx:19
    isFilterMenuOpen,  \* useState(false)             App.tsx:20
    storage,           \* the value under localStorage key 'tasks'
    now,               \* the value Date.now() returned last
    effects,           \* passive effects of the committed render still to run
    queued,            \* a setTasks update queued by the load effect
    logged,            \* console.error was called by the load effect
    mounted,           \* history: the value under 'tasks' when App mounted
    event,             \* history: kind of the last event dispatched
    writes             \* history: localStorage.setItem calls since that event

vars == <<tasks, newTask, filter, isFilterMenuOpen, storage, now, effects,
          queued, logged, mounted, event, writes>>

-----------------------------------------------------------------------------
(* Bounds of the model.                                                    *)

\* Adds are disabled once the list holds MaxTasks tasks.
MaxTasks == 2

\* Date.now() advances by at most ClockTicks ms after mount.
ClockTicks == 1

\* Date.now() at mount, in ms since the epoch; persisted tasks are older.
StartClock == 3

MaxClock == StartClock + ClockTicks

-----------------------------------------------------------------------------
(* Strings.                                                                *)

Digit(d) == <<"0", "1", "2", "3", "4", "5", "6", "7", "8", "9">>[d + 1]

DigitVal(c) == CHOOSE d \in 0..9 : Digit(d) = c

IsDigit(c) == \E d \in 0..9 : Digit(d) = c

\* Number.prototype.toString() of a non-negative integer.
RECURSIVE ToString(_)
ToString(n) == IF n < 10 THEN Digit(n)
               ELSE ToString(n \div 10) \o Digit(n % 10)

CharAt(s, i) == SubSeq(s, i, i)

IsSpace(c) == c = " "

\* String.prototype.trim(): strips leading and trailing white space.
RECURSIVE TrimStart(_)
TrimStart(s) == IF Len(s) > 0 /\ IsSpace(CharAt(s, 1))
                THEN TrimStart(SubSeq(s, 2, Len(s)))
                ELSE s

RECURSIVE TrimEnd(_)
TrimEnd(s) == IF Len(s) > 0 /\ IsSpace(CharAt(s, Len(s)))
              THEN TrimEnd(SubSeq(s, 1, Len(s) - 1))
              ELSE s

Trim(s) == TrimEnd(TrimStart(s))

-----------------------------------------------------------------------------
(* Dates.  A Date is its time value in ms; NaN is the Invalid Date.        *)

NaN == -1

Pad3(n) == Digit(n \div 100) \o Digit((n \div 10) % 10) \o Digit(n % 10)

IsoPrefix == "1970-01-01T00:00:00."

\* Date.prototype.toISOString() for a time value within the first second.
ToISOString(ms) == IsoPrefix \o Pad3(ms) \o "Z"

\* Date.parse() of a string: the time value of an ISO date-time of the
\* first second of the epoch, NaN for a string that is no date.
DateParse(s) ==
    IF /\ Len(s) = 24
       /\ SubSeq(s, 1, 20) = IsoPrefix
       /\ CharAt(s, 24) = "Z"
       /\ \A i \in 21..23 : IsDigit(CharAt(s, i))
    THEN 100 * DigitVal(CharAt(s, 21)) + 10 * DigitVal(CharAt(s, 22))
         + DigitVal(CharAt(s, 23))
    ELSE NaN

-----------------------------------------------------------------------------
(* Objects.  A JS object is the set of its own keys (has) and the values   *)
(* of the keys; the value kept for a key not in `has` is a filler that no  *)
(* read returns.                                                           *)

Keys == {"id", "text", "completed", "createdAt"}

Undefined == "undefined"

\* The Task literal of addTask.
TaskObj(id, text, completed, createdAt) ==
    [has |-> Keys, id |-> id, text |-> text, completed |-> completed,
     createdAt |-> createdAt]

\* task.id: undefined when the object has no such key.
IdOf(task) == IF "id" \in task.has THEN task.id ELSE Undefined

\* task.text
TextOf(task) == IF "text" \in task.has THEN task.text ELSE Undefined

\* Truthiness of task.completed: undefined is falsy.
IsCompleted(task) == "completed" \in task.has /\ task.completed

-----------------------------------------------------------------------------
(* JSON text held in localStorage, by what JSON.parse makes of it.         *)
(*   absent   getItem returns null                                         *)
(*   empty    the empty string                                             *)
(*   notjson  a string JSON.parse rejects                                  *)
(*   object   JSON text of a value that is not an array, e.g. {}           *)
(*   array    JSON text of an array; items are its elements                *)
(* An element is null or an object; an object's createdAt is a JSON        *)
(* string or JSON null.                                                    *)

JStr(s) == [t |-> "string", s |-> s]

JNull == [t |-> "null", s |-> ""]

JObj(has, id, text, completed, createdAt) ==
    [null |-> FALSE, has |-> has, id |-> id, text |-> text,
     completed |-> completed, createdAt |-> createdAt]

JNullElem == [null |-> TRUE, has |-> {}, id |-> "", text |-> "",
              completed |-> FALSE, createdAt |-> JNull]

Absent == [kind |-> "absent", items |-> <<>>]

EmptyString == [kind |-> "empty", items |-> <<>>]

NotJson == [kind |-> "notjson", items |-> <<>>]

JsonObject == [kind |-> "object", items |-> <<>>]

JsonArray(items) == [kind |-> "array", items |-> items]

\* Date.prototype.toJSON(): the ISO string, null for the Invalid Date.
DateToJSON(d) == IF d = NaN THEN JNull ELSE JStr(ToISOString(d))

\* JSON.stringify of one task: its own keys, the Date through toJSON.
StringifyTask(task) ==
    JObj(task.has, task.id, task.text, task.completed,
         DateToJSON(task.createdAt))

\* JSON.stringify(tasks)
Stringify(ts) == JsonArray([i \in 1..Len(ts) |-> StringifyTask(ts[i])])

\* Mutant of NewDate: the callback reads a key the records do not have, so
\* every date is new Date(undefined).
NewDateWrongKey(elem) == NaN

\* new Date(task.createdAt) for a parsed element: undefined gives the
\* Invalid Date, null gives the epoch, a string is parsed.
NewDate(elem) ==
    IF "createdAt" \notin elem.has THEN NaN
    ELSE IF elem.createdAt.t = "null" THEN 0
    ELSE DateParse(elem.createdAt.s)

\* The map callback of the load effect: {...task, createdAt: new Date(..)}.
WithDate(elem) ==
    [has |-> elem.has \cup {"createdAt"}, id |-> elem.id, text |-> elem.text,
     completed |-> elem.completed, createdAt |-> NewDate(elem)]

\* Whether the body of the try block throws on the stored value: JSON.parse
\* rejects the text, the parsed value has no map method, or an element is
\* null and reading its createdAt throws.
LoadThrows(s) ==
    \/ s.kind = "notjson"
    \/ s.kind = "object"
    \/ s.kind = "array" /\ \E i \in 1..Len(s.items) : s.items[i].null

\* tasksWithDates of the load effect, when the try block does not throw.
TasksWithDates(s) == [i \in 1..Len(s.items) |-> WithDate(s.items[i])]

\* Truthiness of the string getItem returned: null and '' are falsy.
Truthy(s) == s.kind \notin {"absent", "empty"}

-----------------------------------------------------------------------------
(* What the user can type and what a previous session can have left.       *)

\* Values of the text input: empty, blank, padded, plain.
Inputs == {"", "  ", " A ", "B"}

\* Ids a handler can be called with: every id Date.now() can produce here,
\* the ids of persisted tasks, and undefined.
Ids == {ToString(n) : n \in 1..MaxClock} \cup {Undefined}

StoredA == JObj(Keys, "1", "A", FALSE, JStr(ToISOString(1)))

StoredB == JObj(Keys, "2", "B", TRUE, JStr(ToISOString(2)))

\* A record whose text is blank.
StoredBlank == JObj(Keys, "1", " ", FALSE, JStr(ToISOString(1)))

\* The JSON object {}.
StoredBare == JObj({}, "", "", FALSE, JNull)

\* Values under 'tasks' at mount: nothing, '', text that is not JSON, JSON
\* that is not an array, and arrays: empty, of well-formed records, with a
\* null element, with an object that lacks the fields of a task.
InitialStorage ==
    {Absent, EmptyString, NotJson, JsonObject,
     JsonArray(<<>>), JsonArray(<<StoredA>>), JsonArray(<<StoredA, StoredB>>),
     JsonArray(<<StoredBlank>>),
     JsonArray(<<JNullElem>>), JsonArray(<<StoredBare>>)}

NoUpdate == [some |-> FALSE, val |-> <<>>]

\* The history variable mounted after the first user event.
Forgotten == [kind |-> "forgotten", items |-> <<>>]

\* The first render has committed; its two effects are still to run.
Init ==
    /\ tasks = <<>>
    /\ newTask = ""
    /\ filter = "all"
    /\ isFilterMenuOpen = FALSE
    /\ storage \in InitialStorage
    /\ now = StartClock
    /\ effects = <<"load", "save">>
    /\ queued = NoUpdate
    /\ logged = FALSE
    /\ mounted = storage
    /\ event = "mount"
    /\ writes = 0

-----------------------------------------------------------------------------
(* Effects and renders.                                                    *)

\* No effect is pending and no update is queued: React dispatches events.
Idle == effects = <<>> /\ ~queued.some

\* useEffect(() => {...}, []): load tasks from localStorage on mount.
LoadEffect ==
    /\ effects # <<>> /\ Head(effects) = "load"
    /\ effects' = Tail(effects)
    /\ IF ~Truthy(storage)
       THEN UNCHANGED <<queued, logged>>
       ELSE IF LoadThrows(storage)
       THEN logged' = TRUE /\ UNCHANGED queued
       ELSE /\ queued' = [some |-> TRUE, val |-> TasksWithDates(storage)]
            /\ UNCHANGED logged
    /\ UNCHANGED <<tasks, newTask, filter, isFilterMenuOpen, storage, now,
                   mounted, event, writes>>

\* useEffect(() => {...}, [tasks]): save the tasks of the render the effect
\* belongs to.
SaveEffect ==
    /\ effects # <<>> /\ Head(effects) = "save"
    /\ effects' = Tail(effects)
    /\ storage' = Stringify(tasks)
    /\ writes' = writes + 1
    /\ UNCHANGED <<tasks, newTask, filter, isFilterMenuOpen, now, queued,
                   logged, mounted, event>>

\* The re-render for the update the load effect queued; tasks is a new
\* array, so the save effect is scheduled again.
Render ==
    /\ effects = <<>> /\ queued.some
    /\ tasks' = queued.val
    /\ queued' = NoUpdate
    /\ effects' = <<"save">>
    /\ UNCHANGED <<newTask, filter, isFilterMenuOpen, storage, now, logged,
                   mounted, event, writes>>

-----------------------------------------------------------------------------
(* Event handlers.                                                         *)

\* The history variables when an event is dispatched: its kind, no write
\* yet, and the value found at mount is no longer kept.
Dispatched(kind) ==
    /\ event' = kind
    /\ writes' = 0
    /\ mounted' = Forgotten

\* onChange of the text input: setNewTask(e.target.value).
ChangeInput(value) ==
    /\ Idle
    /\ newTask' = value
    /\ Dispatched("other")
    /\ UNCHANGED <<tasks, filter, isFilterMenuOpen, storage, now, effects,
                   queued, logged>>

\* Mutant of AddTask: the text is stored as typed, not trimmed.
AddTaskUntrimmed ==
    /\ Idle
    /\ IF Trim(newTask) = ""
       THEN /\ Dispatched("other")
            /\ UNCHANGED <<tasks, newTask, effects, now>>
       ELSE /\ Len(tasks) < MaxTasks
            /\ \E t \in now..MaxClock :
                 /\ now' = t
                 /\ tasks' = Append(tasks,
                                    TaskObj(ToString(t), newTask, FALSE, t))
            /\ newTask' = ""
            /\ effects' = <<"save">>
            /\ Dispatched("mutation")
    /\ UNCHANGED <<filter, isFilterMenuOpen, storage, queued, logged>>

\* Mutant of AddTask: no early return for a blank input.
AddTaskUnguarded ==
    /\ Idle
    /\ Len(tasks) < MaxTasks
    /\ \E t \in now..MaxClock :
         /\ now' = t
         /\ tasks' = Append(tasks,
                            TaskObj(ToString(t), Trim(newTask), FALSE, t))
    /\ newTask' = ""
    /\ effects' = <<"save">>
    /\ Dispatched("mutation")
    /\ UNCHANGED <<filter, isFilterMenuOpen, storage, queued, logged>>

\* addTask: a blank input returns early; otherwise the new task is appended
\* and the input cleared.  setTasks gets a new array, so the save effect of
\* the re-render runs.  Date.now() returns the time t of the call, which is
\* not before the time of the previous call.
AddTask ==
    /\ Idle
    /\ IF Trim(newTask) = ""
       THEN /\ Dispatched("other")
            /\ UNCHANGED <<tasks, newTask, effects, now>>
       ELSE /\ Len(tasks) < MaxTasks
            /\ \E t \in now..MaxClock :
                 /\ now' = t
                 /\ tasks' = Append(tasks,
                                    TaskObj(ToString(t), Trim(newTask), FALSE, t))
            /\ newTask' = ""
            /\ effects' = <<"save">>
            /\ Dispatched("mutation")
    /\ UNCHANGED <<filter, isFilterMenuOpen, storage, queued, logged>>

\* Mutant of Toggled: the matching task is replaced by an object that has
\* the flag only, the spread of the task is missing.
ToggledNoSpread(task, id) ==
    IF IdOf(task) = id
    THEN [task EXCEPT !.has = {"completed"},
                      !.completed = ~IsCompleted(task)]
    ELSE task

\* The callback toggleTaskCompletion maps over tasks.
Toggled(task, id) ==
    IF IdOf(task) = id
    THEN [task EXCEPT !.has = @ \cup {"completed"},
                      !.completed = ~IsCompleted(task)]
    ELSE task

\* Mutant of ToggleTaskCompletion: the flag is flipped in place and setTasks
\* gets the same array, so the dependency of the save effect is unchanged
\* and the effect does not run.
ToggleInPlace(id) ==
    /\ Idle
    /\ tasks' = [i \in 1..Len(tasks) |-> Toggled(tasks[i], id)]
    /\ Dispatched("mutation")
    /\ UNCHANGED <<newTask, filter, isFilterMenuOpen, storage, now, effects,
                   queued, logged>>

\* toggleTaskCompletion(id)
ToggleTaskCompletion(id) ==
    /\ Idle
    /\ tasks' = [i \in 1..Len(tasks) |-> Toggled(tasks[i], id)]
    /\ effects' = <<"save">>
    /\ Dispatched("mutation")
    /\ UNCHANGED <<newTask, filter, isFilterMenuOpen, storage, now, queued,
                   logged>>

\* Mutant of DeleteTask: the task is spliced out in place and setTasks gets
\* the same array, so the save effect does not run.
DeleteInPlace(id) ==
    /\ Idle
    /\ LET Kept(task) == IdOf(task) # id
       IN tasks' = SelectSeq(tasks, Kept)
    /\ Dispatched("mutation")
    /\ UNCHANGED <<newTask, filter, isFilterMenuOpen, storage, now, effects,
                   queued, logged>>

\* Mutant of DeleteTask: the predicate of the filter is inverted, so the
\* tasks kept are those with the id.
DeleteTaskInverted(id) ==
    /\ Idle
    /\ LET Kept(task) == IdOf(task) = id
       IN tasks' = SelectSeq(tasks, Kept)
    /\ effects' = <<"save">>
    /\ Dispatched("mutation")
    /\ UNCHANGED <<newTask, filter, isFilterMenuOpen, storage, now, queued,
                   logged>>

\* deleteTask(id); SelectSeq is Array.prototype.filter.
DeleteTask(id) ==
    /\ Idle
    /\ LET Kept(task) == IdOf(task) # id
       IN tasks' = SelectSeq(tasks, Kept)
    /\ effects' = <<"save">>
    /\ Dispatched("mutation")
    /\ UNCHANGED <<newTask, filter, isFilterMenuOpen, storage, now, queued,
                   logged>>

\* Mutant of Shown: the branch for 'completed' is missing.
ShownNoCompletedBranch(task, f) ==
    IF f = "active" THEN ~IsCompleted(task) ELSE TRUE

\* The predicate of filteredTasks.
Shown(task, f) ==
    IF f = "active" THEN ~IsCompleted(task)
    ELSE IF f = "completed" THEN IsCompleted(task)
    ELSE TRUE

\* Mutant of Visible: the completed tasks are moved behind the others.
VisibleSorted(ts, f) ==
    LET Keep(task) == Shown(task, f)
        Open(task) == ~IsCompleted(task)
    IN SelectSeq(SelectSeq(ts, Keep), Open)
         \o SelectSeq(SelectSeq(ts, Keep), IsCompleted)

\* tasks.filter(...) of the render, for the tasks ts under filter f.
Visible(ts, f) == LET Keep(task) == Shown(task, f) IN SelectSeq(ts, Keep)

filteredTasks == Visible(tasks, filter)

\* Mutant of totalTasks: the length of the filtered list.
totalTasksOfFiltered == Len(filteredTasks)

totalTasks == Len(tasks)

completedTasks == Len(SelectSeq(tasks, IsCompleted))

activeTasks == totalTasks - completedTasks

\* The filter button: setIsFilterMenuOpen(!isFilterMenuOpen).
ToggleFilterMenu ==
    /\ Idle
    /\ isFilterMenuOpen' = ~isFilterMenuOpen
    /\ Dispatched("other")
    /\ UNCHANGED <<tasks, newTask, filter, storage, now, effects, queued,
                   logged>>

\* Mutant of SelectFilter: the entry sets the filter and leaves the menu
\* open.
SelectFilterStaysOpen(f) ==
    /\ Idle
    /\ isFilterMenuOpen
    /\ filter' = f
    /\ Dispatched("other")
    /\ UNCHANGED <<tasks, newTask, isFilterMenuOpen, storage, now, effects,
                   queued, logged>>

\* A menu entry, rendered while the menu is open: setFilter(f) and
\* setIsFilterMenuOpen(false).
SelectFilter(f) ==
    /\ Idle
    /\ isFilterMenuOpen
    /\ filter' = f
    /\ isFilterMenuOpen' = FALSE
    /\ Dispatched("other")
    /\ UNCHANGED <<tasks, newTask, storage, now, effects, queued, logged>>

\* "Show all tasks", rendered when the filtered list is empty and the
\* filter is not 'all': setFilter('all').
ShowAllTasks ==
    /\ Idle
    /\ filteredTasks = <<>> /\ filter # "all"
    /\ filter' = "all"
    /\ Dispatched("other")
    /\ UNCHANGED <<tasks, newTask, isFilterMenuOpen, storage, now, effects,
                   queued, logged>>

FilterTypes == {"all", "active", "completed"}

Next ==
    \/ LoadEffect
    \/ SaveEffect
    \/ Render
    \/ \E value \in Inputs : ChangeInput(value)
    \/ AddTask
    \/ \E id \in Ids : ToggleTaskCompletion(id)
    \/ \E id \in Ids : DeleteTask(id)
    \/ ToggleFilterMenu
    \/ \E f \in FilterTypes : SelectFilter(f)
    \/ ShowAllTasks

Spec == Init /\ [][Next]_vars

TypeOK ==
    /\ Len(tasks) <= MaxTasks
    /\ newTask \in Inputs \cup {""}
    /\ filter \in FilterTypes
    /\ isFilterMenuOpen \in BOOLEAN
    /\ now \in StartClock..MaxClock
    /\ writes \in 0..2

-----------------------------------------------------------------------------
(* Vocabulary of the properties.                                           *)

\* Startup is over and no user event has been dispatched yet.
StartupDone == event = "mount" /\ Idle

\* The last event was an add, a toggle or a delete that called setTasks.
AfterMutation == event = "mutation"

InStore(id) == \E k \in 1..Len(tasks) : IdOf(tasks[k]) = id

\* The sequence s without its k-th element.
Without(s, k) == SubSeq(s, 1, k - 1) \o SubSeq(s, k + 1, Len(s))

\* The elements of a sequence, as a set.
Range(s) == {s[i] : i \in 1..Len(s)}

AllSpaces(s) == \A i \in 1..Len(s) : CharAt(s, i) = " "

\* t is s without the white space around it.
IsTrimOf(t, s) ==
    /\ Len(t) > 0 => CharAt(t, 1) # " " /\ CharAt(t, Len(t)) # " "
    /\ \E i \in 0..Len(s) : \E j \in 0..Len(s) :
         /\ i + Len(t) + j = Len(s)
         /\ AllSpaces(SubSeq(s, 1, i))
         /\ SubSeq(s, i + 1, i + Len(t)) = t
         /\ AllSpaces(SubSeq(s, Len(s) - j + 1, Len(s)))

\* A stored value that is a serialized array of task records: every
\* element an object with id, text, completed and a createdAt string.
WellFormed(s) ==
    /\ s.kind = "array"
    /\ \A i \in 1..Len(s.items) :
         /\ ~s.items[i].null
         /\ s.items[i].has = Keys
         /\ s.items[i].createdAt.t = "string"

\* A stored string that is no such array.
Corrupted(s) == s.kind # "absent" /\ ~WellFormed(s)

-----------------------------------------------------------------------------
(* C1: in every reachable state no two tasks of the store have the same    *)
(* id.  The code takes the id from Date.now(), so two adds within one      *)
(* millisecond break it.                                                   *)
C1_UniqueIds ==
    \A i \in 1..Len(tasks) : \A j \in 1..Len(tasks) :
        i # j => IdOf(tasks[i]) # IdOf(tasks[j])

(* C2: once a mutation (add with non-blank text, toggle, delete) and its   *)
(* effects have run, and before the next event is dispatched, the value    *)
(* under 'tasks' is the JSON array of the whole current sequence: as many  *)
(* records, in the same order, each with the task's keys, id, text and     *)
(* completed flag, and its createdAt as the ISO string of the Date.        *)
C2_PersistedAfterMutation ==
    (AfterMutation /\ Idle) =>
        /\ storage.kind = "array"
        /\ Len(storage.items) = Len(tasks)
        /\ \A i \in 1..Len(tasks) :
             /\ ~storage.items[i].null
             /\ storage.items[i].has = tasks[i].has
             /\ storage.items[i].id = tasks[i].id
             /\ storage.items[i].text = tasks[i].text
             /\ storage.items[i].completed = tasks[i].completed
             /\ storage.items[i].createdAt =
                  (IF tasks[i].createdAt = NaN THEN JNull
                   ELSE JStr(ToISOString(tasks[i].createdAt)))

\* A mutation has been persisted: two tasks, the first one completed.
C2_Witness ==
    /\ AfterMutation /\ Idle /\ writes = 1
    /\ Len(tasks) = 2
    /\ IsCompleted(tasks[1]) /\ ~IsCompleted(tasks[2])
    /\ storage.items[1].completed /\ ~storage.items[2].completed

(* C3: toggling the id of a task in the store flips the completed flag of  *)
(* exactly one task, the one with that id, and changes nothing else: the   *)
(* other tasks, the length and the order stay.  Two tasks that share an id *)
(* (C1) are both flipped.                                                  *)
C3_ToggleFlipsOne ==
    [][\A id \in Ids :
         (ToggleTaskCompletion(id) /\ InStore(id)) =>
            /\ Len(tasks') = Len(tasks)
            /\ \E k \in 1..Len(tasks) :
                 /\ IdOf(tasks[k]) = id
                 /\ IsCompleted(tasks'[k]) = ~IsCompleted(tasks[k])
                 /\ IdOf(tasks'[k]) = IdOf(tasks[k])
                 /\ TextOf(tasks'[k]) = TextOf(tasks[k])
                 /\ tasks'[k].createdAt = tasks[k].createdAt
                 /\ \A i \in 1..Len(tasks) \ {k} : tasks'[i] = tasks[i]]_vars

(* C4: deleting the id of a task in the store removes exactly one task,    *)
(* the one with that id, and keeps the others and their order; deleting an *)
(* id that is not in the store leaves the sequence as it is.  Two tasks    *)
(* that share an id (C1) are both removed.                                 *)
C4_DeleteRemovesOne ==
    [][\A id \in Ids :
         DeleteTask(id) =>
            IF InStore(id)
            THEN /\ Len(tasks') = Len(tasks) - 1
                 /\ \E k \in 1..Len(tasks) :
                      IdOf(tasks[k]) = id /\ tasks' = Without(tasks, k)
            ELSE tasks' = tasks]_vars

(* C5: an add whose input is not blank appends exactly one task at the end *)
(* of the sequence, with the input without its surrounding white space as  *)
(* text and completed = false; the tasks stored before stay, in order.     *)
C5_AddAppends ==
    [][(AddTask /\ ~AllSpaces(newTask)) =>
          /\ Len(tasks') = Len(tasks) + 1
          /\ SubSeq(tasks', 1, Len(tasks)) = tasks
          /\ "text" \in tasks'[Len(tasks')].has
          /\ IsTrimOf(tasks'[Len(tasks')].text, newTask)
          /\ "completed" \in tasks'[Len(tasks')].has
          /\ tasks'[Len(tasks')].completed = FALSE]_vars

\* The add of " A " after a persisted task has just been rendered.
C5_Witness ==
    /\ AfterMutation /\ effects = <<"save">>
    /\ Len(tasks) = 2
    /\ IdOf(tasks[1]) = "1"
    /\ TextOf(tasks[2]) = "A" /\ ~IsCompleted(tasks[2])
    /\ IdOf(tasks[2]) = ToString(now)
    /\ newTask = ""
    /\ Len(storage.items) = 1

(* C6: an add whose input is empty or all white space leaves the task      *)
(* sequence as it is, schedules no effect and writes nothing.              *)
C6_BlankAddIgnored ==
    [][(AddTask /\ AllSpaces(newTask)) =>
          /\ tasks' = tasks
          /\ effects' = effects
          /\ storage' = storage
          /\ newTask' = newTask]_vars

\* A blank input was submitted right after startup: the event was
\* dispatched, and nothing changed.
C6_Witness ==
    /\ Idle /\ event = "other" /\ writes = 0
    /\ newTask = "  "
    /\ Len(tasks) = 2
    /\ storage = Stringify(tasks)

(* C7: startup with a corrupted value under 'tasks' (a string that is not  *)
(* a serialized array of task records, unparsable or of the wrong shape)   *)
(* ends with an empty task list.  The code keeps what the elements of a    *)
(* parsed array hold, whatever their shape.                                *)
C7_CorruptedLoadsEmpty ==
    (StartupDone /\ Corrupted(mounted)) => tasks = <<>>

(* C8: after startup the store holds the records of the value found under  *)
(* 'tasks' at mount, in the same order, each with its id, text, completed  *)
(* flag and the Date its createdAt string denotes; with no value under the *)
(* key it is empty and the total count is 0.                               *)
C8_LoadedAtStartup ==
    StartupDone =>
        /\ mounted.kind = "absent" => tasks = <<>> /\ totalTasks = 0
        /\ WellFormed(mounted) =>
             /\ Len(tasks) = Len(mounted.items)
             /\ totalTasks = Len(mounted.items)
             /\ \A i \in 1..Len(mounted.items) :
                  /\ tasks[i].has = Keys
                  /\ tasks[i].id = mounted.items[i].id
                  /\ tasks[i].text = mounted.items[i].text
                  /\ tasks[i].completed = mounted.items[i].completed
                  /\ tasks[i].createdAt # NaN
                  /\ ToISOString(tasks[i].createdAt)
                       = mounted.items[i].createdAt.s

\* Startup has loaded the two persisted records.
C8_Witness ==
    /\ StartupDone
    /\ mounted = JsonArray(<<StoredA, StoredB>>)
    /\ Len(tasks) = 2
    /\ tasks[2].createdAt = 2

(* C9: each mutation (add, toggle, delete) produces exactly one write of   *)
(* the key 'tasks': none while its save effect is pending, one once the    *)
(* effect has run, and no further event is dispatched in between.          *)
C9_OneWritePerMutation ==
    AfterMutation =>
        IF Idle THEN writes = 1
        ELSE writes = 0 /\ effects = <<"save">> /\ ~queued.some

\* The toggle of the one task of the list has been written.
C9_Witness ==
    /\ AfterMutation /\ Idle /\ writes = 1
    /\ Len(tasks) = 1
    /\ IsCompleted(tasks[1])
    /\ IdOf(tasks[1]) = ToString(now)
    /\ storage.items[1].completed

(* C10 as stated: active and completed together are all, and the three     *)
(* visible sets (all, active, completed) are pairwise disjoint.  `all`     *)
(* holds every task, so it overlaps whichever of the two is not empty.     *)
C10_ThreePairwiseDisjoint ==
    /\ Range(Visible(tasks, "active")) \cup Range(Visible(tasks, "completed"))
         = Range(Visible(tasks, "all"))
    /\ Range(Visible(tasks, "active")) \cap Range(Visible(tasks, "completed"))
         = {}
    /\ Range(Visible(tasks, "all")) \cap Range(Visible(tasks, "active")) = {}
    /\ Range(Visible(tasks, "all")) \cap Range(Visible(tasks, "completed"))
         = {}

(* C10 amended: the tasks visible under active and those visible under     *)
(* completed together are exactly those visible under all, which are all   *)
(* tasks of the store, and no task is visible under both active and        *)
(* completed.                                                              *)
C10_ActiveCompletedPartition ==
    /\ Range(Visible(tasks, "active")) \cup Range(Visible(tasks, "completed"))
         = Range(Visible(tasks, "all"))
    /\ Range(Visible(tasks, "all")) = Range(tasks)
    /\ Range(Visible(tasks, "active")) \cap Range(Visible(tasks, "completed"))
         = {}

\* Both parts are inhabited.
C10_Witness ==
    /\ Len(Visible(tasks, "active")) = 1
    /\ Len(Visible(tasks, "completed")) = 1
    /\ Len(Visible(tasks, "all")) = 2

-----------------------------------------------------------------------------
\* sub is s with some elements left out, the others in order.
RECURSIVE IsSubseq(_, _)
IsSubseq(sub, s) ==
    IF sub = <<>> THEN TRUE
    ELSE IF s = <<>> THEN FALSE
    ELSE IF Head(sub) = Head(s) THEN IsSubseq(Tail(sub), Tail(s))
    ELSE IsSubseq(sub, Tail(s))

\* A step of one of the handlers of the filter selector.
FilterStep ==
    \/ ToggleFilterMenu
    \/ \E f \in FilterTypes : SelectFilter(f)
    \/ ShowAllTasks

(* C11: a toggle or a delete with an id that matches no task is a no-op:   *)
(* the handler leaves the task sequence and the value under 'tasks' as     *)
(* they are, and the value its save effect is about to write is the value  *)
(* already persisted.  (The first three conjuncts hold of every step of    *)
(* the two handlers; they only spare the search over the ids.)             *)
C11_MissingIdNoOp ==
    [][(/\ Idle /\ effects' = <<"save">> /\ newTask' = newTask
        /\ \E id \in Ids :
             /\ ~InStore(id)
             /\ ToggleTaskCompletion(id) \/ DeleteTask(id)) =>
            /\ tasks' = tasks
            /\ storage' = storage
            /\ Stringify(tasks') = storage]_vars

\* A handler was called with a missing id on a list of two tasks: its save
\* effect is pending and will write what is persisted already.
C11_Witness ==
    /\ AfterMutation /\ effects = <<"save">>
    /\ Len(tasks) = 2
    /\ IsCompleted(tasks[2])
    /\ storage = Stringify(tasks)

(* C12: no step of the filter selector (opening or closing the menu,       *)
(* selecting all, active or completed, "Show all tasks") changes the task  *)
(* sequence or the persisted value, and the filtered view is always the    *)
(* store with some tasks left out, the others in the store's order.        *)
C12_FilterLeavesStore ==
    [][/\ FilterStep => tasks' = tasks /\ storage' = storage
       /\ IsSubseq(Visible(tasks', filter'), tasks')]_vars

\* 'completed' was selected from the menu: the view is the second of the
\* two tasks.
C12_Witness ==
    /\ Idle /\ event = "other"
    /\ filter = "completed" /\ ~isFilterMenuOpen
    /\ Len(tasks) = 2
    /\ filteredTasks = <<tasks[2]>>

(* C13: the filter selector starts closed with filter all; the filter      *)
(* button takes the closed menu to open; an entry of the menu is available *)
(* only while the menu is open, and selecting it sets the filter to its    *)
(* value and closes the menu in the same step.                             *)
C13_FilterSelector ==
    /\ filter = "all" /\ ~isFilterMenuOpen
    /\ [][/\ (ToggleFilterMenu /\ ~isFilterMenuOpen) => isFilterMenuOpen'
          /\ \A f \in FilterTypes :
               SelectFilter(f) =>
                  isFilterMenuOpen /\ filter' = f /\ ~isFilterMenuOpen']_vars

\* 'active' was selected and the menu is closed again.
C13_Witness ==
    /\ Idle /\ event = "other"
    /\ filter = "active" /\ ~isFilterMenuOpen
    /\ tasks # <<>>

\* The number of tasks of the store that satisfy P.
Count(P(_)) == Cardinality({i \in 1..Len(tasks) : P(tasks[i])})

NotCompleted(task) == ~IsCompleted(task)

\* The text of a task is a string that is not blank and has no white space
\* around it.
ProperText(task) ==
    /\ "text" \in task.has
    /\ task.text # ""
    /\ ~AllSpaces(task.text)
    /\ IsTrimOf(task.text, task.text)

(* C14: serializing a task sequence in the persistence format and          *)
(* deserializing the result as the load effect does gives the same         *)
(* sequence: same length and order, and for each task the same id, text,   *)
(* completed flag and creation time.  A task loaded from a record without  *)
(* a usable createdAt (C7) holds the Invalid Date, which is written as     *)
(* null and read back as the epoch.                                        *)
C14_RoundTrip ==
    /\ ~LoadThrows(Stringify(tasks))
    /\ Len(TasksWithDates(Stringify(tasks))) = Len(tasks)
    /\ \A i \in 1..Len(tasks) :
         LET back == TasksWithDates(Stringify(tasks))[i]
         IN /\ IdOf(back) = IdOf(tasks[i])
            /\ TextOf(back) = TextOf(tasks[i])
            /\ IsCompleted(back) = IsCompleted(tasks[i])
            /\ back.createdAt = tasks[i].createdAt

(* C15: in every reachable state total is the number of tasks of the whole *)
(* store, completed the number of them that are completed, active the      *)
(* number of them that are not, and total = active + completed, whatever   *)
(* the filter is.                                                          *)
C15_Counts ==
    /\ totalTasks = Len(tasks)
    /\ completedTasks = Count(IsCompleted)
    /\ activeTasks = Count(NotCompleted)
    /\ totalTasks = activeTasks + completedTasks

\* One task of each kind while the view shows the active one only.
C15_Witness ==
    /\ filter = "active"
    /\ Len(filteredTasks) = 1
    /\ totalTasks = 2 /\ activeTasks = 1 /\ completedTasks = 1

(* C16: in every reachable state the text of every task is a string that   *)
(* is not empty, not all white space, and equal to its trimmed form.  The  *)
(* load effect takes the text of a persisted record as it is.              *)
C16_TextNeverBlank ==
    \A i \in 1..Len(tasks) : ProperText(tasks[i])

\* What a task is for its lifetime: id, text and creation time.
Core(task) == <<IdOf(task), TextOf(task), task.createdAt>>

\* Startup is over: its effects and its re-render are done.
Started == event # "mount" \/ Idle

ToggleStep == \E id \in Ids : ToggleTaskCompletion(id)

DeleteStep == \E id \in Ids : DeleteTask(id)

(* C17: in every step after startup a task appears only in an add, which   *)
(* keeps the tasks stored before as they are; a task disappears only in a  *)
(* delete, which keeps the others as they are and in order; in any other   *)
(* step every task keeps its place, id, text and createdAt, and its        *)
(* completed flag unless the step is a toggle.                             *)
C17_Lifecycle ==
    [][Started =>
         /\ Len(tasks') > Len(tasks) =>
              AddTask /\ SubSeq(tasks', 1, Len(tasks)) = tasks
         /\ Len(tasks') < Len(tasks) =>
              DeleteStep /\ IsSubseq(tasks', tasks)
         /\ Len(tasks') = Len(tasks) =>
              \A i \in 1..Len(tasks) :
                 /\ Core(tasks'[i]) = Core(tasks[i])
                 /\ tasks'[i] = tasks[i] \/ ToggleStep]_vars

\* The persisted task "A" has just been toggled: the flag is set, the rest
\* of the task is what was loaded.
C17_Witness ==
    /\ AfterMutation /\ effects = <<"save">>
    /\ Len(tasks) = 2
    /\ Core(tasks[1]) = <<"1", "A", 1>> /\ IsCompleted(tasks[1])
    /\ ~storage.items[1].completed

\* The texts of a sequence of tasks.
Texts(ts) == [i \in 1..Len(ts) |-> TextOf(ts[i])]

(* C18: with "A" and "B" added to an empty store, toggling the id of "A"   *)
(* leaves exactly ["B"] visible under active and exactly ["A"] under       *)
(* completed, with total 2, active 1 and completed 1, whenever the two     *)
(* adds happened.  Two adds within one millisecond give both tasks the     *)
(* same id (C1), and the toggle completes both.                            *)
C18_Scenario ==
    [][\A id \in Ids :
         (/\ ToggleTaskCompletion(id)
          /\ Texts(tasks) = <<"A", "B">>
          /\ ~IsCompleted(tasks[1]) /\ ~IsCompleted(tasks[2])
          /\ IdOf(tasks[1]) = id) =>
            /\ Texts(Visible(tasks', "active")) = <<"B">>
            /\ Texts(Visible(tasks', "completed")) = <<"A">>
            /\ totalTasks' = 2 /\ activeTasks' = 1 /\ completedTasks' = 1]_vars

(* C19: startup does not destroy valid persisted data: when 'tasks' holds  *)
(* a well-formed task sequence at mount, then in every state until the     *)
(* first user event the value under 'tasks' deserializes to that sequence. *)
(* The save effect of the first render writes the empty list before the    *)
(* loaded tasks are rendered.                                              *)
C19_StartupKeepsData ==
    (event = "mount" /\ WellFormed(mounted)) =>
        /\ storage.kind = "array"
        /\ ~LoadThrows(storage)
        /\ TasksWithDates(storage) = TasksWithDates(mounted)

====
